---- MODULE Spec2Model ----
(***************************************************************************)
(* Chat Any (Raycast extension): the content-aggregation engine of         *)
(* src/src/common.ts (current revision, lines 1-476).                      *)
(*                                                                         *)
(* Text is a sequence of string tokens; the empty text '' is <<>>.  A file *)
(* or directory name is a sequence of tokens, each either "." or a         *)
(* non-empty dot-free word, so that the regular expressions and            *)
(* path.extname act on the name's shape.  A path is a sequence of names.   *)
(***************************************************************************)
EXTENDS Integers, Sequences, FiniteSets, TLC

\* ------------------------------------------------------------------ bounds
\* Date.now() of the first state, scaled down from the real epoch.
Epoch0 == 1000000
\* Invocations started in one behaviour, and readings of the clock that find it
\* advanced.
MaxOps == 2
MaxTicks == 2
\* Length of the Finder selection in the resolver specification.
MaxSel == 2

\* -------------------------------------------------------------- sequences
SeqMax(S) == CHOOSE m \in S : \A x \in S : x <= m

RECURSIVE Concat(_)
\* The strings of a sequence, concatenated.
Concat(ss) == IF ss = <<>> THEN "" ELSE Head(ss) \o Concat(Tail(ss))

RECURSIVE JoinWith(_, _)
\* Array.prototype.join on parts that are token sequences.
JoinWith(parts, sep) ==
    IF parts = <<>> THEN <<>>
    ELSE IF Len(parts) = 1 THEN Head(parts)
    ELSE Head(parts) \o <<sep>> \o JoinWith(Tail(parts), sep)

Join(parts) == JoinWith(parts, "\n")

\* All orders of the elements of a sequence without repetitions.
PermsOf(s) ==
    { [i \in 1..Len(s) |-> s[f[i]]] :
        f \in { g \in [1..Len(s) -> 1..Len(s)] :
                  \A i, j \in 1..Len(s) : g[i] = g[j] => i = j } }

\* ------------------------------------------------------------ names, paths
NameStr(name) == Concat(name)

RECURSIVE SlashJoin(_)
SlashJoin(names) ==
    IF names = <<>> THEN ""
    ELSE IF Len(names) = 1 THEN NameStr(names[1])
    ELSE NameStr(names[1]) \o "/" \o SlashJoin(Tail(names))

\* The string of an absolute path and of a relative path.
PathStr(p) == "/" \o SlashJoin(p)
RelStr(r) == SlashJoin(r)

Basename(p) == IF p = <<>> THEN <<>> ELSE p[Len(p)]

\* String.prototype.toLowerCase on a word of a name.
LowerWord(w) ==
    CASE w = "PNG" -> "png"
      [] w = "Zip" -> "zip"
      [] OTHER -> w

ToLowerCase(name) == [i \in 1..Len(name) |-> LowerWord(name[i])]

\* path.extname: from the last "." to the end; '' when there is no ".", when
\* the last "." is the first character, and for "..".
ExtName(name) ==
    LET dots == { i \in 1..Len(name) : name[i] = "." }
    IN  IF dots = {} THEN <<>>
        ELSE IF SeqMax(dots) = 1 THEN <<>>
        ELSE IF name = <<".", ".">> THEN <<>>
        ELSE SubSeq(name, SeqMax(dots), Len(name))

BINARY_MEDIA_EXTENSIONS ==
    { <<".", e>> : e \in { "jpg", "jpeg", "png", "gif", "bmp", "tiff", "mp3",
                           "wav", "flac", "mp4", "avi", "mkv", "exe", "dll",
                           "bin", "iso", "zip", "rar", "xcodeproj",
                           "xcworkspace", "tiktoken" } }

isBinaryOrMediaFile(fileName) ==
    ToLowerCase(ExtName(fileName)) \in BINARY_MEDIA_EXTENSIONS

\* IGNORED_PATTERNS: the anchored alternations /^(a|b|...)$/, each as the set of
\* names it matches, in the order of the array (the second pattern, /^\..+/, is
\* MatchesHidden).
IGNORED_PATTERNS == <<
    { <<w>> : w \in { "node_modules", "dist", "build", "coverage", "tmp", "logs",
                      "public", "assets", "vendor" } },
    { <<"package-lock", ".", "json">>, <<"yarn", ".", "lock">> },
    { <<".", "vscode">> },
    { <<".", "idea">> },
    { <<".", "env">>, <<".", "env", ".", "local">> },
    { <<".", "cache">> },
    { <<"bower_components">>, <<"jspm_packages">> },
    { <<".", "DS_Store">> } >>

\* Mutant of isBinaryOrMediaPath: the extension of any segment of the path counts.
isBinaryOrMediaPath_AnySegment(itemPath) ==
    \E k \in 1..Len(itemPath) : isBinaryOrMediaFile(itemPath[k])

\* isBinaryOrMediaFile called with a full path: path.extname takes the extension
\* of the last segment.
isBinaryOrMediaPath(itemPath) == isBinaryOrMediaFile(Basename(itemPath))

\* /^\..+/ : a "." followed by at least one more character.
MatchesHidden(itemName) == Len(itemName) >= 2 /\ itemName[1] = "."

isIgnoredItem(itemName) ==
    \/ MatchesHidden(itemName)
    \/ \E i \in 1..Len(IGNORED_PATTERNS) : itemName \in IGNORED_PATTERNS[i]

\* ------------------------------------------------------------ file system
\* The names of the model's file system.
N_u == <<"u">>
N_demo == <<"demo">>
N_a == <<"a", ".", "txt">>
N_b == <<"b", ".", "png">>
N_nested == <<"nested">>
N_c == <<"c", ".", "txt">>
N_proj == <<"proj">>
N_xc == <<"App", ".", "xcodeproj">>
N_f == <<"f", ".", "txt">>
N_git == <<".", "git">>
N_e == <<"e", ".", "txt">>
N_d == <<"d", ".", "txt">>
N_lnk == <<"lnk">>
N_note == <<"note", ".", "md">>
N_pic == <<"pic", ".", "PNG">>
N_nm == <<"node_modules">>
N_dangling == <<"dangling">>
N_deep == <<"deep">>
N_sub == <<"sub">>
N_x == <<"x", ".", "txt">>
N_y == <<"y", ".", "txt">>
N_ln == <<"ln">>
N_loop == <<"loop">>

P_demo == <<N_u, N_demo>>
P_nested == <<N_u, N_demo, N_nested>>
P_proj == <<N_u, N_proj>>
P_xc == <<N_u, N_proj, N_xc>>
P_git == <<N_u, N_proj, N_git>>
P_note == <<N_u, N_note>>
P_pic == <<N_u, N_pic>>
P_nm == <<N_u, N_nm>>
P_dangling == <<N_u, N_dangling>>
P_d == <<N_u, N_proj, N_d>>
P_deep == <<N_u, N_deep>>
P_sub == <<N_u, N_deep, N_sub>>

DirNode(entries) ==
    [kind |-> "directory", entries |-> entries, content |-> <<>>, readable |-> TRUE]
FileNode(content, readable) ==
    [kind |-> "file", entries |-> <<>>, content |-> content, readable |-> readable]
\* A symbolic link: lstat reports neither a file nor a directory; readFile follows
\* it, and succeeds when the target is a readable file.
LinkNode(content, readable) ==
    [kind |-> "symlink", entries |-> <<>>, content |-> content, readable |-> readable]

\* The file system below /u: entries are in readdir's enumeration order.
FS ==
    (P_demo :> DirNode(<<N_a, N_b, N_nested>>)) @@
    (Append(P_demo, N_a) :> FileNode(<<"hello">>, TRUE)) @@
    (Append(P_demo, N_b) :> FileNode(<<"bytes">>, FALSE)) @@
    (P_nested :> DirNode(<<N_c>>)) @@
    (Append(P_nested, N_c) :> FileNode(<<"world">>, TRUE)) @@
    (P_proj :> DirNode(<<N_d, N_xc, N_git, N_lnk>>)) @@
    (Append(P_proj, N_d) :> FileNode(<<>>, FALSE)) @@
    (P_xc :> DirNode(<<N_f, N_loop>>)) @@
    (Append(P_xc, N_loop) :> LinkNode(<<>>, FALSE)) @@
    (Append(P_xc, N_f) :> FileNode(<<"pbx">>, TRUE)) @@
    (P_git :> DirNode(<<N_e>>)) @@
    (Append(P_git, N_e) :> FileNode(<<"ref">>, TRUE)) @@
    (Append(P_proj, N_lnk) :> LinkNode(<<"linked">>, TRUE)) @@
    (P_note :> FileNode(<<"note">>, TRUE)) @@
    (P_pic :> FileNode(<<"bytes">>, FALSE)) @@
    (P_nm :> DirNode(<<>>)) @@
    (P_dangling :> LinkNode(<<>>, FALSE)) @@
    (P_deep :> DirNode(<<N_sub, N_ln>>)) @@
    (P_sub :> DirNode(<<N_x, N_y>>)) @@
    (Append(P_sub, N_x) :> FileNode(<<"ex">>, TRUE)) @@
    (Append(P_sub, N_y) :> FileNode(<<"why">>, TRUE)) @@
    (Append(P_deep, N_ln) :> LinkNode(<<"target">>, TRUE))

Dirs == { p \in DOMAIN FS : FS[p].kind = "directory" }
Links == { p \in DOMAIN FS : FS[p].kind = "symlink" }

\* The symbolic links whose target is a directory: loop points back to /u/proj,
\* which holds it (a cycle); readFile on such a link fails.
LinksToDirectory == { Append(P_xc, N_loop) }

\* The three passes over the tree, in the order getContentFromSelectedItems runs
\* them.
PassNo(pass) == CASE pass = "count" -> 1 [] pass = "structure" -> 2 [] pass = "walk" -> 3

\* fs.readdir fails on directory fault.dir from pass fault.from on (permission
\* denied from the start, or revoked / removed while the invocation runs).
NoFault == [dir |-> <<>>, from |-> 1]
Faults == {NoFault} \cup [dir : Dirs, from : 1..3]

ReaddirFails(dirPath, pass, fault) ==
    fault.dir = dirPath /\ PassNo(pass) >= fault.from

\* fs.readFile(p, 'utf-8'): the content, or a failure.
ReadFileOk(p) == p \in DOMAIN FS /\ FS[p].kind # "directory" /\ FS[p].readable

\* Mutant of DirentIsDirectory: the entry is reported as stat would, through the
\* link.
DirentIsDirectory_FollowsLinks(p) ==
    p \in DOMAIN FS /\ (FS[p].kind = "directory" \/ p \in LinksToDirectory)

\* Dirent.isDirectory() of an entry of a directory listing.
DirentIsDirectory(p) == p \in DOMAIN FS /\ FS[p].kind = "directory"

getFileType(itemPath) ==
    IF itemPath \notin DOMAIN FS THEN "other"
    ELSE IF FS[itemPath].kind = "directory" THEN "directory"
    ELSE IF FS[itemPath].kind = "file" THEN "file"
    ELSE "other"

\* ------------------------------------------------------- completion order
\* Entries of a directory whose block is pushed after an await (a file read or a
\* sub-directory walk); the others are pushed while items.map still runs.
AsyncEntries(dirPath) ==
    LET Waits(e) == ~(isIgnoredItem(e) \/ isBinaryOrMediaFile(e))
    IN  SelectSeq(FS[dirPath].entries, Waits)

RECURSIVE ScheduleProduct(_)
ScheduleProduct(ds) ==
    IF ds = {} THEN { << >> }
    ELSE LET d == CHOOSE x \in ds : TRUE
         IN  { (d :> p) @@ rest :
                 p \in PermsOf(AsyncEntries(d)), rest \in ScheduleProduct(ds \ {d}) }

\* A schedule gives, for each directory, the order in which the awaited reads and
\* sub-walks of its entries complete: any order is possible.
Schedules == ScheduleProduct(Dirs \cup LinksToDirectory)

\* The schedule in which everything completes in enumeration order.
InOrder == [d \in Dirs \cup LinksToDirectory |-> AsyncEntries(d)]

\* ------------------------------------------------------------ the walker
Thrown == [ok |-> FALSE, v |-> <<>>]
Returned(v) == [ok |-> TRUE, v |-> v]

\* Mutant of Joined: the render goes on as soon as the first callback has settled.
Joined_FirstSettled(completed) ==
    IF completed = <<>> THEN <<>> ELSE <<Head(completed)>>

\* await Promise.all(readPromises): of the callbacks that wait, completing in the
\* order `completed`, those that have pushed their block when the render goes on.
Joined(completed) == completed

\* Mutant of readFileBlock: a failed read is swallowed and leaves no block.
readFileBlock_DropsFailedRead(label, itemPath) ==
    IF ReadFileOk(itemPath)
    THEN <<"File: ", label, "\n">> \o FS[itemPath].content \o <<"\n">>
    ELSE <<>>

\* The block of a file that is read: fs.readFile in its try/catch.
readFileBlock(label, itemPath) ==
    IF ReadFileOk(itemPath)
    THEN <<"File: ", label, "\n">> \o FS[itemPath].content \o <<"\n">>
    ELSE <<"File: ", label, " (read failed)\n">>

RECURSIVE readDirectoryContents(_, _, _, _)
readDirectoryContents(dirPath, basePath, fault, sched) ==
    LET header == << <<"This is a merged representation of: ", PathStr(dirPath), "\n===\n">>,
                     <<"Directory Structure\n===\n">> >>
    IN  IF ReaddirFails(dirPath, "walk", fault)
        THEN Join(header \o << <<"Directory: ", PathStr(dirPath), " (read failed)\n">> >>)
        ELSE
        LET items == FS[dirPath].entries
            Listed(e) == ~isIgnoredItem(e)
            listed == SelectSeq(items, Listed)
            StructureLine(e) ==
                IF DirentIsDirectory(Append(dirPath, e))
                THEN <<"  ", RelStr(Append(basePath, e)), "/">>
                ELSE <<"  ", RelStr(Append(basePath, e))>>
            structure == [i \in 1..Len(listed) |-> StructureLine(listed[i])]
            Sync(e) == isIgnoredItem(e) \/ isBinaryOrMediaFile(e)
            sync == SelectSeq(items, Sync)
            Block(itemName) ==
                LET itemPath == Append(dirPath, itemName)
                    relativePath == Append(basePath, itemName)
                IN  IF isIgnoredItem(itemName) \/ isBinaryOrMediaFile(itemName)
                    THEN <<"File: ", RelStr(relativePath), " (content ignored)\n">>
                    ELSE IF DirentIsDirectory(itemPath)
                    THEN readDirectoryContents(itemPath, relativePath, fault, sched)
                    ELSE readFileBlock(RelStr(relativePath), itemPath)
            \* contentParts.push runs in each callback after its await: the blocks
            \* pushed without an await come first, the others in completion order.
            completed == Joined(sched[dirPath])
            blocks == [i \in 1..Len(sync) |-> Block(sync[i])]
                        \o [i \in 1..Len(completed) |-> Block(completed[i])]
        IN  Join(header
                 \o << <<NameStr(Basename(dirPath)), "/">> >>
                 \o structure
                 \o << <<"\n===\nFile Contents\n===\n">> >>
                 \o blocks)

RECURSIVE getDirectoryStructure(_, _, _)
getDirectoryStructure(dirPath, basePath, fault) ==
    IF ReaddirFails(dirPath, "structure", fault) THEN Thrown
    ELSE
    LET items == FS[dirPath].entries
        Listed(e) == ~isIgnoredItem(e)
        listed == SelectSeq(items, Listed)
        \* The sub-directories among the listed entries, each with its structure.
        Sub(e) == getDirectoryStructure(Append(dirPath, e), Append(basePath, e), fault)
        PartsOf(e) ==
            IF DirentIsDirectory(Append(dirPath, e))
            THEN << <<RelStr(Append(basePath, e)), "/">>, Sub(e).v >>
            ELSE << <<RelStr(Append(basePath, e))>> >>
        RECURSIVE Collect(_)
        Collect(i) == IF i > Len(listed) THEN <<>>
                      ELSE PartsOf(listed[i]) \o Collect(i + 1)
        structureParts == Collect(1)
    IN  IF \E i \in 1..Len(listed) :
              DirentIsDirectory(Append(dirPath, listed[i])) /\ ~Sub(listed[i]).ok
        THEN Thrown
        ELSE Returned(Join([i \in 1..Len(structureParts) |-> <<"  ">> \o structureParts[i]]))

RECURSIVE countFiles(_, _)
countFiles(itemPath, fault) ==
    LET fileType == getFileType(itemPath)
    IN  IF fileType = "directory"
        THEN IF ReaddirFails(itemPath, "count", fault) THEN Thrown
             ELSE
             LET items == FS[itemPath].entries
                 Counted(e) == ~isIgnoredItem(e)
                 counted == SelectSeq(items, Counted)
                 Sub(e) == countFiles(Append(itemPath, e), fault)
                 RECURSIVE Sum(_)
                 Sum(i) == IF i > Len(counted) THEN 0 ELSE Sub(counted[i]).v + Sum(i + 1)
             IN  IF \E i \in 1..Len(counted) : ~Sub(counted[i]).ok
                 THEN Thrown
                 ELSE Returned(Sum(1))
        ELSE IF fileType = "file" /\ ~isBinaryOrMediaPath(itemPath)
        THEN Returned(1)
        ELSE Returned(0)

\* ------------------------------------------------------------ the sources
\* What the host answers to getSelectedFinderItems: a failure, or the selected
\* paths in the host's order.
HostFails == [ok |-> FALSE, items |-> <<>>]
HostItems(items) == [ok |-> TRUE, items |-> items]

\* The positions of the selected items whose block waits for getFileType.
AwaitedPositions(selectedItems) ==
    LET Waits(i) == ~isIgnoredItem(Basename(selectedItems[i]))
    IN  SelectSeq([i \in 1..Len(selectedItems) |-> i], Waits)

TopOrders(host) == PermsOf(AwaitedPositions(IF host.ok THEN host.items ELSE <<>>))

getContentFromSelectedItems(host, fault, sched, top) ==
    LET selectedItems == IF host.ok THEN host.items ELSE <<>>
        n == Len(selectedItems)
        Counted(i) == ~isIgnoredItem(Basename(selectedItems[i]))
        Count(i) == countFiles(selectedItems[i], fault)
        RECURSIVE Total(_)
        Total(i) == IF i > n THEN 0
                    ELSE (IF Counted(i) THEN Count(i).v ELSE 0) + Total(i + 1)
        countThrows == \E i \in 1..n : Counted(i) /\ ~Count(i).ok
        head == << <<"Total Files: ", ToString(Total(1)), "\n">>,
                   <<"This is a merged representation of selected items:\n===\n">>,
                   <<"Overall Directory Structure\n===\n">> >>
        Structure(i) == getDirectoryStructure(selectedItems[i],
                                              <<Basename(selectedItems[i])>>, fault)
        StructureOf(i) ==
            LET itemName == Basename(selectedItems[i])
                fileType == getFileType(selectedItems[i])
            IN  IF isIgnoredItem(itemName) THEN <<>>
                ELSE IF fileType = "directory"
                THEN << <<NameStr(itemName), "/">>, Structure(i).v >>
                ELSE IF fileType = "file" THEN << <<NameStr(itemName)>> >>
                ELSE <<>>
        RECURSIVE Collect(_)
        Collect(i) == IF i > n THEN <<>> ELSE StructureOf(i) \o Collect(i + 1)
        structureThrows ==
            \E i \in 1..n : /\ ~isIgnoredItem(Basename(selectedItems[i]))
                            /\ getFileType(selectedItems[i]) = "directory"
                            /\ ~Structure(i).ok
        \* The parts one callback of selectedItems.map pushes: one block or none.
        Pushed(i) ==
            LET itemPath == selectedItems[i]
                itemName == Basename(itemPath)
                fileType == getFileType(itemPath)
            IN  IF isIgnoredItem(itemName)
                THEN << <<PathStr(itemPath), " (content ignored)\n">> >>
                ELSE IF fileType = "directory"
                THEN << readDirectoryContents(itemPath, <<itemName>>, fault, sched) >>
                ELSE IF fileType = "file"
                THEN IF isBinaryOrMediaPath(itemPath)
                     THEN << <<"File: ", NameStr(itemName),
                               " (binary or media file, content ignored)\n">> >>
                     ELSE << readFileBlock(NameStr(itemName), itemPath) >>
                ELSE <<>>
        Sync(i) == isIgnoredItem(Basename(selectedItems[i]))
        sync == SelectSeq([i \in 1..n |-> i], Sync)
        RECURSIVE PushAll(_)
        PushAll(order) == IF order = <<>> THEN <<>>
                          ELSE Pushed(Head(order)) \o PushAll(Tail(order))
    IN  IF n = 0 THEN <<>>
        ELSE IF countThrows THEN <<>>
        ELSE IF structureThrows THEN Join(head)
        ELSE Join(head
                  \o << Join(Collect(1)) >>
                  \o << <<"\n===\nDetailed Contents\n===\n">> >>
                  \o PushAll(sync \o Joined(top)))

\* What the host answers to getSelectedText and Clipboard.readText: a failure
\* (value "throws"), or a text, possibly empty.
\* Mutant of getContentFromSelectedText: a failure gives its message as the text.
getContentFromSelectedText_ErrorText(answer) ==
    IF answer.ok THEN answer.v ELSE <<"Failed to get selected text">>

getContentFromSelectedText(answer) ==
    IF answer.ok THEN answer.v ELSE <<>>

getContentFromClipboard(answer) ==
    IF answer.ok THEN answer.v ELSE <<>>

\* --------------------------------------------------------- persisted state
\* Number.prototype.toString and parseInt(s, 10) on decimal digit strings; a
\* string is a sequence of digits.
RECURSIVE toString(_)
toString(n) == IF n < 10 THEN <<n>> ELSE toString(n \div 10) \o <<n % 10>>

RECURSIVE parseInt(_)
parseInt(s) == IF s = <<>> THEN 0
               ELSE 10 * parseInt(SubSeq(s, 1, Len(s) - 1)) + s[Len(s)]

\* Thresholds of openDirectoryAndFile, in milliseconds.
TenMinutes == 600000
OneMinute == 60000

\* The separator handleChatOperation puts before appended text.
Separator == <<"\n\n\n">>

MsgNoContent == "No files or text selected, and clipboard is empty"
MsgWriteFailed == "Unable to write to file"
MsgOpenFailed == "Unable to open application or perform operation"
MsgOperationFailed == "Operation failed"
MsgAppendSuccessful == "Append successful"

NoDocument == [exists |-> FALSE, text |-> <<>>]
Document(text) == [exists |-> TRUE, text |-> text]

\* Mutant of writeFile: the text is added to what the file holds.
writeFile_KeepsContent(d, text) == Document(d.text \o text)

\* Mutant of appendFile: a missing file is not created.
appendFile_NeedsFile(d, text) == IF d.exists THEN Document(d.text \o text) ELSE d

\* fs.writeFile and fs.appendFile on FILE_PATH, when they succeed.
writeFile(d, text) == Document(text)
appendFile(d, text) == Document(d.text \o text)

\* ------------------------------------------------------------------ inputs
Operations == {"write", "append"}

\* Milliseconds by which Date.now() may have advanced since it was last read: the
\* two thresholds, one millisecond more than each, and five minutes.
Elapsed == {0, OneMinute, OneMinute + 1, 5 * OneMinute, TenMinutes, TenMinutes + 1}

\* Finder selections the host may report to an invocation.
HostAnswers == { HostFails, HostItems(<<>>), HostItems(<<P_note>>), HostItems(<<P_nested>>) }

\* Each selection with every text its resolution can give, over all readdir
\* faults and all completion orders.
SelectionOutcomes ==
    UNION { { [selected |-> h,
               text |-> getContentFromSelectedItems(h, f, s, t)] :
                 f \in Faults, s \in Schedules, t \in TopOrders(h) } :
            h \in HostAnswers }

TextAnswers(text) ==
    { [ok |-> FALSE, v |-> <<>>], [ok |-> TRUE, v |-> <<>>], [ok |-> TRUE, v |-> text] }

\* A source that was not queried, and a query the host never answers: its
\* promise stays pending.
NotAsked == [ok |-> TRUE, v |-> <<"not asked">>]
Pending == [ok |-> FALSE, v |-> <<"pending">>]

\* preferences.customEditor?.name || 'Cursor'
EditorNames == {"", "Cursor", "Visual Studio Code"}
editorAppOf(name) == IF name = "" THEN "Cursor" ELSE name

\* ------------------------------------------------------------------- state
Procs == {1, 2}

VARIABLES
    now,        \* Date.now() when it was last read
    store,      \* LocalStorage[LAST_CURSOR_OPEN_TIME_KEY]; <<>> when never set
    dirExists,  \* CHAT_ANY_PATH exists
    doc,        \* the file FILE_PATH
    inv,        \* per invocation slot: position in handleChatOperation and what it did
    started,    \* invocations started
    ticks,      \* readings of the clock that found it advanced
    walk,       \* one run of getContentFromSelectedItems on given inputs
    cls,        \* one classification of a name, by name and by path
    link        \* one invocation of the Link-files command

vars == <<now, store, dirExists, doc, inv, started, ticks, walk, cls, link>>

\* An invocation slot: pc is the await the invocation is at; the other fields log
\* what it was given and what it did (the calls a test would count on mocks).
Idle ==
    [pc |-> "idle", operation |-> "write",
     startDoc |-> NoDocument, startStore |-> <<>>,  \* the persisted state it started from
     selected |-> HostFails,     \* the host's answer to getSelectedFinderItems
     queried |-> <<>>,           \* the sources queried, in order
     yields |-> <<>>,            \* the text each queried source gave
     stAnswer |-> NotAsked,      \* the host's answer to getSelectedText, when queried
     cbAnswer |-> NotAsked,      \* the host's answer to Clipboard.readText, when queried
     text |-> <<>>,              \* the resolved text
     prevDoc |-> NoDocument, prevStore |-> <<>>,    \* the persisted state at the file operation
     fileOps |-> 0,              \* calls of fs.writeFile / fs.appendFile
     pending |-> <<>>,           \* the part of an append a later write call will add
     wrote |-> FALSE,            \* the file operation succeeded
     currentTime |-> 0, lastOpenTime |-> 0, effective |-> "write",
     editorApp |-> "Cursor",
     launches |-> 0,             \* calls of `open -a`
     launched |-> FALSE,         \* `open -a` succeeded
     prevLaunch |-> 0,           \* currentTime of the last earlier invocation whose
                                 \* `open -a` succeeded; 0 when there is none
     lastLaunch |-> 0,           \* the same, this invocation included
     stored |-> FALSE,           \* LocalStorage.setItem succeeded
     scrolls |-> 0,              \* calls of osascript
     huds |-> <<>>,              \* calls of showHUD: the message, and whether it was shown
     failed |-> "",              \* the step that threw, if any
     message |-> ""]

Hud(message, shown) == [message |-> message, shown |-> shown]

NoCls == [phase |-> "none", dir |-> <<>>, name |-> <<>>, byName |-> "", byPath |-> ""]

\* The Link-files command before it runs.
NoLink ==
    [pc |-> "none",
     host |-> HostFails,         \* the host's answer to getSelectedFinderItems
     selectedItems |-> <<>>,
     toast |-> "none",           \* toast.style
     huds |-> 0,                 \* calls of showHUD
     symlinks |-> "none",        \* createSymlinksForSelectedItems: none, completed, threw
     created |-> 0, failed |-> 0,
     fileType |-> "",
     launches |-> 0,             \* calls of `open -a`
     threw |-> ""]               \* the await that threw, if any

NoWalk == [phase |-> "none", host |-> HostFails, fault |-> NoFault, sched |-> InOrder,
           top |-> <<>>, text |-> <<>>]

Init ==
    /\ now = Epoch0
    /\ store = <<>>
    /\ dirExists = FALSE
    /\ doc = NoDocument
    /\ inv = [p \in Procs |-> Idle]
    /\ started = 0
    /\ ticks = 0
    /\ walk = NoWalk
    /\ cls = NoCls
    /\ link = NoLink

\* --------------------------------------------------- handleChatOperation
\* Mutant of resolveText: the clipboard is read whatever the earlier sources gave.
resolveText_AlwaysClipboard(selectionText, selectedText, clipboard) ==
    LET t1 == selectionText
        t2 == IF t1 = <<>> THEN getContentFromSelectedText(selectedText) ELSE t1
        t3 == IF getContentFromClipboard(clipboard) # <<>>
              THEN getContentFromClipboard(clipboard) ELSE t2
    IN  [text |-> t3,
         yields |-> <<t1>> \o (IF t1 = <<>> THEN <<t2>> ELSE <<>>) \o <<t3>>,
         queried |-> <<"selection">>
                       \o (IF t1 = <<>> THEN <<"selectedText">> ELSE <<>>)
                       \o <<"clipboard">>]

\* The fallback chain: the text, and the sources queried to get it.
resolveText(selectionText, selectedText, clipboard) ==
    LET t1 == selectionText
        t2 == IF t1 = <<>> THEN getContentFromSelectedText(selectedText) ELSE t1
        t3 == IF t2 = <<>> THEN getContentFromClipboard(clipboard) ELSE t2
    IN  [text |-> t3,
         yields |-> <<t1>> \o (IF t1 = <<>> THEN <<t2>> ELSE <<>>)
                           \o (IF t2 = <<>> THEN <<t3>> ELSE <<>>),
         queried |-> <<"selection">>
                       \o (IF t1 = <<>> THEN <<"selectedText">> ELSE <<>>)
                       \o (IF t2 = <<>> THEN <<"clipboard">> ELSE <<>>)]

\* Mutant of stopsWithoutContent: the empty text is written like any other.
stopsWithoutContent_Never(text) == FALSE

\* handleChatOperation stops, with the "no content" message, when all three
\* sources gave nothing.
stopsWithoutContent(text) == text = <<>>

\* Mutant of fileOperation: the appended text is not preceded by the separator.
fileOperation_NoSeparator(operation, d, text) ==
    IF operation = "write" THEN writeFile(d, text)
    ELSE appendFile(d, text)

\* Mutant of fileOperation: the document is written as soon as the first part of
\* the text is there.
fileOperation_FirstPartOnly(operation, d, text) ==
    IF operation = "write" THEN writeFile(d, SubSeq(text, 1, 1))
    ELSE appendFile(d, Separator \o SubSeq(text, 1, 1))

\* The file operation of handleChatOperation, on the operation it was called with.
fileOperation(operation, d, text) ==
    IF operation = "write" THEN writeFile(d, text)
    ELSE appendFile(d, Separator \o text)

\* Mutant of lastOpenTimeOf: a missing value reads as a recent open.
lastOpenTimeOf_MissingIsRecent(lastOpenTimeString) ==
    IF lastOpenTimeString # <<>> THEN parseInt(lastOpenTimeString) ELSE Epoch0

\* openDirectoryAndFile: the value read for the last open time.
lastOpenTimeOf(lastOpenTimeString) ==
    IF lastOpenTimeString # <<>> THEN parseInt(lastOpenTimeString) ELSE 0

\* openDirectoryAndFile: the operation after the ten-minute check.
effectiveOperation(operation, currentTime, lastOpenTime) ==
    IF currentTime - lastOpenTime > TenMinutes THEN "write" ELSE operation

\* Mutants of opensEditor: the one-minute test is >= ; the one-minute test is
\* missing; a write is throttled like an append.
opensEditor_AtOneMinute(operation, currentTime, lastOpenTime) ==
    \/ effectiveOperation(operation, currentTime, lastOpenTime) = "write"
    \/ currentTime - lastOpenTime >= OneMinute

opensEditor_OnlyAfterTenMinutes(operation, currentTime, lastOpenTime) ==
    effectiveOperation(operation, currentTime, lastOpenTime) = "write"

opensEditor_WriteThrottled(operation, currentTime, lastOpenTime) ==
    currentTime - lastOpenTime > OneMinute

\* Mutant of opensEditor: an append never opens the editor.
opensEditor_AppendNeverOpens(operation, currentTime, lastOpenTime) ==
    operation = "write"

\* openDirectoryAndFile: whether the editor is opened (else the HUD is shown).
opensEditor(operation, currentTime, lastOpenTime) ==
    \/ effectiveOperation(operation, currentTime, lastOpenTime) = "write"
    \/ currentTime - lastOpenTime > OneMinute

\* Mutant of stepAfterGetItem: the time is stored before the editor is opened.
stepAfterGetItem_StoresFirst(opens) == IF opens THEN "setItem" ELSE "showHUD"

\* openDirectoryAndFile: the await that follows the two time checks.
stepAfterGetItem(opens) == IF opens THEN "exec" ELSE "showHUD"

\* Mutant of scrollsToEnd: the script runs after every open of Cursor.
scrollsToEnd_AnyOperation(operation, editorApp) == editorApp = "Cursor"

\* openDirectoryAndFile: whether the scroll-to-end script runs after the open.
scrollsToEnd(operation, editorApp) == operation = "append" /\ editorApp = "Cursor"

\* The steps of openDirectoryAndFile that can throw.
OpenSteps == {"getItem", "exec", "setItem", "osascript", "showHUD"}

\* Mutants of catchOf: a launch failure is reported as a persistence failure;
\* every failure falls to the outermost catch; a directory-creation failure is
\* reported as a persistence failure.
catchOf_LaunchAsWrite(step) ==
    IF step = "mkdir" THEN MsgOperationFailed ELSE MsgWriteFailed

catchOf_OuterOnly(step) == MsgOperationFailed

catchOf_DirectoryAsWrite(step) ==
    IF step \in OpenSteps THEN MsgOpenFailed ELSE MsgWriteFailed

\* The message of the catch block of handleChatOperation that encloses a step.
catchOf(step) ==
    IF step = "fileop" THEN MsgWriteFailed
    ELSE IF step \in OpenSteps THEN MsgOpenFailed
    ELSE MsgOperationFailed

\* Mutant of showErrorHUD_settles: a failure of showHUD is rethrown.
showErrorHUD_Rethrows(shown) == IF shown THEN "done" ELSE "rejected"

\* How the promise of handleChatOperation settles after showErrorHUD, whether or
\* not showHUD succeeded: showErrorHUD catches the failure.
showErrorHUD_settles(shown) == "done"

\* Mutant of catchTarget: a failed `open -a` is tried again.
catchTarget_RetriesLaunch(step) == IF step = "exec" THEN "exec" ELSE "errorHUD"

\* Where a step that threw leaves the invocation: in the catch block, at its
\* showErrorHUD call; the step is not tried again.
catchTarget(step) == "errorHUD"

\* A step throws: the enclosing catch of handleChatOperation shows `message`.
Fail(p, step, message) ==
    inv' = [inv EXCEPT ![p].pc = catchTarget(step), ![p].failed = step,
                       ![p].message = message]

Start(p, operation) ==
    /\ inv[p].pc \in {"idle", "done"}
    /\ started < MaxOps
    /\ started' = started + 1
    /\ inv' = [inv EXCEPT ![p] = [Idle EXCEPT !.pc = "ensure",
                                               !.operation = operation,
                                               !.effective = operation,
                                               !.startDoc = doc,
                                               !.prevLaunch = inv[p].lastLaunch,
                                               !.lastLaunch = inv[p].lastLaunch,
                                               !.startStore = store]]
    /\ UNCHANGED <<now, store, dirExists, doc, ticks, walk, cls, link>>

\* ensureDirectoryExists(CHAT_ANY_PATH): fs.access, then fs.mkdir when it fails.
EnsureDirectory(p) ==
    /\ inv[p].pc = "ensure"
    /\ \E mkdirOk \in BOOLEAN :
         IF dirExists \/ mkdirOk
         THEN /\ dirExists' = TRUE
              /\ inv' = [inv EXCEPT ![p].pc = "resolve"]
         ELSE /\ Fail(p, "mkdir", catchOf("mkdir"))
              /\ UNCHANGED dirExists
    /\ UNCHANGED <<now, store, doc, started, ticks, walk, cls, link>>

\* The three sources in turn. getSelectedText is awaited with no timer: when the
\* host never answers, the invocation stays at that await.
Resolve(p) ==
    /\ inv[p].pc = "resolve"
    /\ \/ \E o \in SelectionOutcomes :
            /\ o.text = <<>>
            /\ inv' = [inv EXCEPT ![p].selected = o.selected,
                                   ![p].queried = <<"selection", "selectedText">>,
                                   ![p].yields = <<o.text>>,
                                   ![p].stAnswer = Pending,
                                   ![p].pc = "selectedText"]
       \/ \E o \in SelectionOutcomes,
          st \in TextAnswers(<<"selected text">>),
          cb \in TextAnswers(<<"clipboard text">>) :
         LET r == resolveText(o.text, st, cb)
             Asked(source, answer) ==
                 IF \E i \in 1..Len(r.queried) : r.queried[i] = source
                 THEN answer ELSE NotAsked
         IN  inv' = [inv EXCEPT ![p].selected = o.selected,
                                ![p].text = r.text,
                                ![p].queried = r.queried,
                                ![p].yields = r.yields,
                                ![p].stAnswer = Asked("selectedText", st),
                                ![p].cbAnswer = Asked("clipboard", cb),
                                ![p].pc = IF stopsWithoutContent(r.text)
                                          THEN "errorHUD" ELSE "fileop",
                                ![p].message = IF stopsWithoutContent(r.text)
                                               THEN MsgNoContent ELSE ""]
    /\ UNCHANGED <<now, store, dirExists, doc, started, ticks, walk, cls, link>>

\* fs.writeFile / fs.appendFile; on success openDirectoryAndFile starts and runs to
\* its first await: it reads Date.now(), which has advanced by d since the last
\* reading, and the preferences.
FileOperation(p) ==
    /\ inv[p].pc = "fileop"
    /\ \/ \E name \in EditorNames, d \in Elapsed :
            /\ d > 0 => ticks < MaxTicks
            /\ ticks' = IF d > 0 THEN ticks + 1 ELSE ticks
            /\ now' = now + d
            /\ doc' = fileOperation(inv[p].operation, doc, inv[p].text)
            /\ inv' = [inv EXCEPT ![p].prevDoc = doc,
                                   ![p].prevStore = store,
                                   ![p].wrote = TRUE,
                                   ![p].fileOps = @ + 1,
                                   ![p].currentTime = now + d,
                                   ![p].editorApp = editorAppOf(name),
                                   ![p].pc = "getItem"]
       \/ /\ inv' = [inv EXCEPT ![p].fileOps = @ + 1, ![p].pc = catchTarget("fileop"),
                                 ![p].failed = "fileop",
                                 ![p].message = catchOf("fileop")]
          /\ UNCHANGED <<doc, now, ticks>>
    /\ UNCHANGED <<store, dirExists, started, walk, cls, link>>

\* LocalStorage.getItem and the two time checks.
GetItem(p) ==
    /\ inv[p].pc = "getItem"
    /\ \/ LET lastOpenTime == lastOpenTimeOf(store)
              currentTime == inv[p].currentTime
          IN  inv' = [inv EXCEPT
                        ![p].lastOpenTime = lastOpenTime,
                        ![p].effective =
                            effectiveOperation(inv[p].operation, currentTime, lastOpenTime),
                        ![p].pc = stepAfterGetItem(
                                      opensEditor(inv[p].operation, currentTime, lastOpenTime))]
       \/ Fail(p, "getItem", catchOf("getItem"))
    /\ UNCHANGED <<now, store, dirExists, doc, started, ticks, walk, cls, link>>

\* execPromise(`open -a ...`)
Exec(p) ==
    /\ inv[p].pc = "exec"
    /\ \/ inv' = [inv EXCEPT ![p].launches = @ + 1, ![p].launched = TRUE,
                              ![p].lastLaunch = inv[p].currentTime,
                              ![p].pc = "setItem"]
       \/ inv' = [inv EXCEPT ![p].launches = @ + 1, ![p].pc = catchTarget("exec"),
                              ![p].failed = "exec", ![p].message = catchOf("exec")]
    /\ UNCHANGED <<now, store, dirExists, doc, started, ticks, walk, cls, link>>

\* LocalStorage.setItem(LAST_CURSOR_OPEN_TIME_KEY, currentTime.toString())
SetItem(p) ==
    /\ inv[p].pc = "setItem"
    /\ \/ /\ store' = toString(inv[p].currentTime)
          /\ inv' = [inv EXCEPT ![p].stored = TRUE,
                                 ![p].pc = IF scrollsToEnd(inv[p].effective, inv[p].editorApp)
                                           THEN "osascript" ELSE "done"]
       \/ /\ Fail(p, "setItem", catchOf("setItem"))
          /\ UNCHANGED store
    /\ UNCHANGED <<now, dirExists, doc, started, ticks, walk, cls, link>>

\* execPromise(`osascript -e ...`)
Osascript(p) ==
    /\ inv[p].pc = "osascript"
    /\ \/ inv' = [inv EXCEPT ![p].scrolls = @ + 1, ![p].pc = "done"]
       \/ inv' = [inv EXCEPT ![p].scrolls = @ + 1, ![p].pc = catchTarget("osascript"),
                              ![p].failed = "osascript", ![p].message = catchOf("osascript")]
    /\ UNCHANGED <<now, store, dirExists, doc, started, ticks, walk, cls, link>>

\* showHUD('Append successful')
ShowHUD(p) ==
    /\ inv[p].pc = "showHUD"
    /\ \/ inv' = [inv EXCEPT ![p].huds = Append(@, Hud(MsgAppendSuccessful, TRUE)),
                              ![p].pc = "done"]
       \/ inv' = [inv EXCEPT ![p].huds = Append(@, Hud(MsgAppendSuccessful, FALSE)),
                              ![p].pc = catchTarget("showHUD"), ![p].failed = "showHUD",
                              ![p].message = catchOf("showHUD")]
    /\ UNCHANGED <<now, store, dirExists, doc, started, ticks, walk, cls, link>>

\* showErrorHUD(message): a failure of showHUD is swallowed.
ShowErrorHUD(p) ==
    /\ inv[p].pc = "errorHUD"
    /\ \E shown \in BOOLEAN :
         inv' = [inv EXCEPT ![p].huds = Append(@, Hud(inv[p].message, shown)),
                            ![p].pc = showErrorHUD_settles(shown)]
    /\ UNCHANGED <<now, store, dirExists, doc, started, ticks, walk, cls, link>>

Step(p) ==
    \/ \E operation \in Operations : Start(p, operation)
    \/ EnsureDirectory(p)
    \/ Resolve(p)
    \/ FileOperation(p)
    \/ GetItem(p)
    \/ Exec(p)
    \/ SetItem(p)
    \/ Osascript(p)
    \/ ShowHUD(p)
    \/ ShowErrorHUD(p)

\* Invocations one after the other: the host awaits each command.
Next == Step(1)

Spec == Init /\ [][Next]_vars

\* ------------------------------------------------ overlapping invocations
\* fs.appendFile opens FILE_PATH for appending and writes the data with one write
\* call per chunk, each awaited; every write call adds its chunk at the end of the
\* file as it is then. A text of one part goes out in one call (FileOperation);
\* a longer one may go out in two, and another invocation can run in between.
AppendFirstChunk(p) ==
    /\ inv[p].pc = "fileop"
    /\ inv[p].operation = "append"
    /\ \E k \in 1..(Len(inv[p].text) - 1) :
         /\ doc' = appendFile(doc, Separator \o SubSeq(inv[p].text, 1, k))
         /\ inv' = [inv EXCEPT ![p].prevDoc = doc,
                                ![p].fileOps = @ + 1,
                                ![p].pending = SubSeq(inv[p].text, k + 1, Len(inv[p].text)),
                                ![p].pc = "fileopRest"]
    /\ UNCHANGED <<now, store, dirExists, started, ticks, walk, cls, link>>

\* The last write call of fs.appendFile; its promise resolves and
\* openDirectoryAndFile starts, as in FileOperation.
AppendRest(p) ==
    /\ inv[p].pc = "fileopRest"
    /\ \E name \in EditorNames, d \in Elapsed :
         /\ d > 0 => ticks < MaxTicks
         /\ ticks' = IF d > 0 THEN ticks + 1 ELSE ticks
         /\ now' = now + d
         /\ doc' = appendFile(doc, inv[p].pending)
         /\ inv' = [inv EXCEPT ![p].prevStore = store,
                                ![p].pending = <<>>,
                                ![p].wrote = TRUE,
                                ![p].currentTime = now + d,
                                ![p].editorApp = editorAppOf(name),
                                ![p].pc = "getItem"]
    /\ UNCHANGED <<store, dirExists, started, walk, cls, link>>

\* The state after a write at Epoch0 that opened the editor.
InitOverlap ==
    /\ now = Epoch0
    /\ store = toString(Epoch0)
    /\ dirExists = TRUE
    /\ doc = Document(<<"clipboard text">>)
    /\ inv = [p \in Procs |-> Idle]
    /\ started = 0
    /\ ticks = 0
    /\ walk = NoWalk
    /\ cls = NoCls
    /\ link = NoLink

\* The overlap is explored for one invocation per slot, slot 2 started second:
\* slot 1 with the file note.md selected in the Finder, slot 2 with no Finder
\* window; the editor is Cursor, and the clock readings are the same or more
\* than a minute apart.
OneEach == inv[2].pc # "idle" => inv[1].pc \notin {"idle", "ensure"}
OverlapInputs ==
    /\ inv[1].selected = IF inv[1].queried = <<>> THEN HostFails ELSE HostItems(<<P_note>>)
    /\ inv[2].selected = HostFails
OverlapElapsed == {0, OneMinute + 1}
OverlapClock(p) == now' - now \in OverlapElapsed /\ inv'[p].editorApp = "Cursor"

\* The command is run again while an earlier invocation is still at an await.
StepOverlap(p) ==
    \/ (\E operation \in Operations : Start(p, operation)) /\ inv[p].pc = "idle" /\ OneEach'
    \/ EnsureDirectory(p)
    \/ Resolve(p) /\ OverlapInputs'
    \/ FileOperation(p) /\ OverlapClock(p)
    \/ AppendFirstChunk(p)
    \/ AppendRest(p) /\ OverlapClock(p)
    \/ GetItem(p)
    \/ Exec(p)
    \/ SetItem(p)
    \/ Osascript(p)
    \/ ShowHUD(p)
    \/ ShowErrorHUD(p)

NextOverlap == StepOverlap(1) \/ StepOverlap(2)

SpecOverlap == InitOverlap /\ [][NextOverlap]_vars

\* ------------------------------------------------- the resolver on its own
Selectable == {P_demo, P_proj, P_note, P_pic, P_nm, P_dangling, P_xc, P_d, P_deep}

\* The selections of at most MaxSel distinct items, in every order.
WalkSelections ==
    UNION { { s \in [1..n -> Selectable] : \A i, j \in 1..n : s[i] = s[j] => i = j } :
            n \in 0..MaxSel }

InitWalk ==
    /\ now = Epoch0
    /\ store = <<>>
    /\ dirExists = FALSE
    /\ doc = NoDocument
    /\ inv = [p \in Procs |-> Idle]
    /\ started = 0
    /\ ticks = 0
    /\ cls = NoCls
    /\ link = NoLink
    /\ \E s \in WalkSelections, f \in Faults, sc \in Schedules :
         \E t \in TopOrders(HostItems(s)) :
           walk = [phase |-> "input", host |-> HostItems(s), fault |-> f, sched |-> sc,
                   top |-> t, text |-> <<>>]

WalkSelected ==
    /\ walk.phase = "input"
    /\ walk' = [walk EXCEPT
                  !.phase = "done",
                  !.text = getContentFromSelectedItems(walk.host, walk.fault,
                                                       walk.sched, walk.top)]
    /\ UNCHANGED <<now, store, dirExists, doc, inv, started, ticks, cls, link>>

NextWalk == WalkSelected

SpecWalk == InitWalk /\ [][NextWalk]_vars

\* --------------------------------------------------- the Link-files command
\* createSymlinksForSelectedItems(selectedItems): the outcomes of the call. It
\* makes one symlink per selected item in the destination directory and resolves,
\* when every attempt is over, with the numbers created and failed; or it throws,
\* with some of the symlinks made.
createSymlinksForSelectedItems(selectedItems) ==
    { [ok |-> TRUE, created |-> c, failed |-> Len(selectedItems) - c] :
        c \in 0..Len(selectedItems) }
    \cup { [ok |-> FALSE, created |-> c, failed |-> 0] : c \in 0..Len(selectedItems) }

\* Mutant of opensLinkedFile: everything but a directory is opened.
opensLinkedFile_NotADirectory(fileType) == fileType # "directory"

\* Command: whether the editor is opened on the one selected item.
opensLinkedFile(fileType) == fileType = "file"

\* showToast({ style: Animated }): awaited before the try block.
ShowToast ==
    /\ link.pc = "showToast"
    /\ \/ link' = [link EXCEPT !.toast = "Animated", !.pc = "getSelectedFinderItems"]
       \/ link' = [link EXCEPT !.threw = "showToast", !.pc = "rejected"]
    /\ UNCHANGED <<now, store, dirExists, doc, inv, started, ticks, walk, cls>>

\* getSelectedFinderItems().catch(() => []) and the test of its length.
GetSelectedFinderItems ==
    /\ link.pc = "getSelectedFinderItems"
    /\ LET selectedItems == IF link.host.ok THEN link.host.items ELSE <<>>
       IN  link' = [link EXCEPT !.selectedItems = selectedItems,
                                !.pc = IF Len(selectedItems) = 0
                                       THEN "showHUD" ELSE "createSymlinks"]
    /\ UNCHANGED <<now, store, dirExists, doc, inv, started, ticks, walk, cls>>

\* Nothing is selected: showHUD, then the toast is set to Failure and the
\* command returns.
NothingSelected ==
    /\ link.pc = "showHUD"
    /\ \/ link' = [link EXCEPT !.huds = @ + 1, !.toast = "Failure", !.pc = "returned"]
       \/ link' = [link EXCEPT !.huds = @ + 1, !.pc = "catch", !.threw = "showHUD"]
    /\ UNCHANGED <<now, store, dirExists, doc, inv, started, ticks, walk, cls>>

\* await createSymlinksForSelectedItems(selectedItems), then the test of the
\* number of selected items.
CreateSymlinks ==
    /\ link.pc = "createSymlinks"
    /\ \E result \in createSymlinksForSelectedItems(link.selectedItems) :
         IF result.ok
         THEN link' = [link EXCEPT !.symlinks = "completed",
                                   !.created = result.created,
                                   !.failed = result.failed,
                                   !.pc = IF Len(link.selectedItems) = 1
                                          THEN "getFileType" ELSE "success"]
         ELSE link' = [link EXCEPT !.symlinks = "threw",
                                   !.created = result.created,
                                   !.pc = "catch", !.threw = "createSymlinks"]
    /\ UNCHANGED <<now, store, dirExists, doc, inv, started, ticks, walk, cls>>

\* await getFileType(selectedItems[0].path) and the test of its result.
GetFileType ==
    /\ link.pc = "getFileType"
    /\ LET fileType == getFileType(link.selectedItems[1])
       IN  link' = [link EXCEPT !.fileType = fileType,
                                !.pc = IF opensLinkedFile(fileType)
                                       THEN "exec" ELSE "success"]
    /\ UNCHANGED <<now, store, dirExists, doc, inv, started, ticks, walk, cls>>

\* execPromise(`open -a "${editorApp}" "${CHAT_ANY_PATH}" "${linkPath}"`)
OpenLinkedFile ==
    /\ link.pc = "exec"
    /\ \/ link' = [link EXCEPT !.launches = @ + 1, !.pc = "success"]
       \/ link' = [link EXCEPT !.launches = @ + 1, !.pc = "catch", !.threw = "exec"]
    /\ UNCHANGED <<now, store, dirExists, doc, inv, started, ticks, walk, cls>>

\* The end of the try block.
LinkSucceeds ==
    /\ link.pc = "success"
    /\ link' = [link EXCEPT !.toast = "Success", !.pc = "returned"]
    /\ UNCHANGED <<now, store, dirExists, doc, inv, started, ticks, walk, cls>>

\* The catch block.
LinkFails ==
    /\ link.pc = "catch"
    /\ link' = [link EXCEPT !.toast = "Failure", !.pc = "returned"]
    /\ UNCHANGED <<now, store, dirExists, doc, inv, started, ticks, walk, cls>>

\* One run of the command on each answer of the host.
InitLink ==
    /\ now = Epoch0
    /\ store = <<>>
    /\ dirExists = FALSE
    /\ doc = NoDocument
    /\ inv = [p \in Procs |-> Idle]
    /\ started = 0
    /\ ticks = 0
    /\ walk = NoWalk
    /\ cls = NoCls
    /\ \E h \in {HostFails} \cup { HostItems(s) : s \in WalkSelections } :
         link = [NoLink EXCEPT !.pc = "showToast", !.host = h]

NextLink ==
    \/ ShowToast
    \/ GetSelectedFinderItems
    \/ NothingSelected
    \/ CreateSymlinks
    \/ GetFileType
    \/ OpenLinkedFile
    \/ LinkSucceeds
    \/ LinkFails

SpecLink == InitLink /\ [][NextLink]_vars

\* ================================================================= claims
\* Invocation p has run to its end, was called with `operation`, and its file
\* operation succeeded (so that it read the clock).
Finished(p, operation) ==
    /\ inv[p].pc = "done"
    /\ inv[p].operation = operation
    /\ inv[p].wrote

\* now - LastOpenTimestamp of invocation p.
SinceLastOpen(p) == inv[p].currentTime - lastOpenTimeOf(inv[p].prevStore)

\* C1: an append with non-empty text made more than ten minutes after the last
\* open behaves like a write: afterwards the document is exactly the text.
C1_LateAppendOverwrites ==
    \A p \in Procs :
        (Finished(p, "append") /\ SinceLastOpen(p) > TenMinutes)
            => doc = Document(inv[p].text)

\* C2: an append with non-empty text made at most one minute (60000 ms included)
\* after the last open appends the text, never launches the editor, and its
\* feedback is the "Append successful" notification: the first HUD call, and the
\* only one unless a step of the invocation throws.
C2_RecentAppendKeepsEditorClosed ==
    \A p \in Procs :
        (Finished(p, "append") /\ SinceLastOpen(p) <= OneMinute)
            => /\ doc = Document(inv[p].prevDoc.text \o Separator \o inv[p].text)
               /\ inv[p].launches = 0
               /\ inv[p].scrolls = 0
               /\ inv[p].failed \in {"", "getItem", "showHUD"}
               /\ inv[p].failed # "getItem"
                    => /\ inv[p].huds # <<>>
                       /\ inv[p].huds[1].message = MsgAppendSuccessful
               /\ inv[p].failed = ""
                    => inv[p].huds = <<Hud(MsgAppendSuccessful, TRUE)>>

C2_Witness ==
    \E p \in Procs :
        /\ Finished(p, "append")
        /\ SinceLastOpen(p) = OneMinute
        /\ inv[p].prevDoc.text # <<>>
        /\ inv[p].launches = 0
        /\ inv[p].huds = <<Hud(MsgAppendSuccessful, TRUE)>>

\* C3: an append with non-empty text made more than one and at most ten minutes
\* after the last open launches the editor (once the stored time is read), and
\* when the launch and the store succeed the stored time is the invocation's
\* current time.
C3_LaterAppendReopensEditor ==
    \A p \in Procs :
        (/\ Finished(p, "append")
         /\ SinceLastOpen(p) > OneMinute
         /\ SinceLastOpen(p) <= TenMinutes
         /\ inv[p].failed # "getItem")
            => /\ inv[p].launches = 1
               /\ (inv[p].launched /\ inv[p].failed # "setItem")
                    => /\ store = toString(inv[p].currentTime)
                       /\ lastOpenTimeOf(store) = inv[p].currentTime

C3_Witness ==
    \E p \in Procs :
        /\ Finished(p, "append")
        /\ SinceLastOpen(p) = OneMinute + 1
        /\ inv[p].prevStore # <<>>
        /\ inv[p].launched
        /\ lastOpenTimeOf(store) = inv[p].currentTime
        /\ store # inv[p].prevStore

\* C4: an append with non-empty text T made at most ten minutes after the last
\* open, whose file operation succeeds, leaves the document equal to its previous
\* content, then the separator, then T, whether or not the editor is opened.
C4_AppendKeepsPreviousContent ==
    \A p \in Procs :
        (Finished(p, "append") /\ SinceLastOpen(p) <= TenMinutes)
            => doc = Document(inv[p].prevDoc.text \o Separator \o inv[p].text)

C4_Witness ==
    \E p \in Procs :
        /\ Finished(p, "append")
        /\ SinceLastOpen(p) = 5 * OneMinute
        /\ inv[p].prevDoc.exists
        /\ inv[p].prevDoc.text # <<>>
        /\ inv[p].launched
        /\ doc = Document(inv[p].prevDoc.text \o Separator \o inv[p].text)

\* C5: a write with non-empty text T replaces the whole document by T and then
\* attempts the editor launch whatever the last open time is, a time less than a
\* minute old included; the launch done, the current time is stored.
C5_WriteOverwritesAndOpens ==
    \A p \in Procs :
        Finished(p, "write")
            => /\ doc = Document(inv[p].text)
               /\ inv[p].text # <<>>
               /\ inv[p].failed # "getItem" => inv[p].launches = 1
               /\ (inv[p].launched /\ inv[p].failed # "setItem")
                    => store = toString(inv[p].currentTime)

C5_Witness ==
    \E p \in Procs :
        /\ Finished(p, "write")
        /\ SinceLastOpen(p) <= OneMinute
        /\ inv[p].prevDoc.exists
        /\ inv[p].prevDoc.text # inv[p].text
        /\ inv[p].launched
        /\ doc = Document(inv[p].text)
        /\ store = toString(inv[p].currentTime)

\* C6: the highlighted text is queried only if the selection gave empty text and
\* the clipboard only if both gave empty text; when the selection gives non-empty
\* text no other source is queried, and the text is what the last queried source
\* gave (once every queried source has answered).
C6_FallbackOrder ==
    \A p \in Procs :
        (inv[p].queried # <<>> /\ inv[p].pc # "selectedText")
            => /\ inv[p].queried \in { <<"selection">>,
                                       <<"selection", "selectedText">>,
                                       <<"selection", "selectedText", "clipboard">> }
               /\ Len(inv[p].yields) = Len(inv[p].queried)
               /\ \A i \in 2..Len(inv[p].queried) :
                    \A j \in 1..(i - 1) : inv[p].yields[j] = <<>>
               /\ inv[p].yields[1] # <<>> => inv[p].queried = <<"selection">>
               /\ inv[p].text = inv[p].yields[Len(inv[p].yields)]

C6_Witness ==
    \E p \in Procs :
        /\ inv[p].pc = "done"
        /\ inv[p].wrote
        /\ inv[p].selected = HostItems(<<P_note>>)
        /\ inv[p].yields[1] # <<>>
        /\ inv[p].queried = <<"selection">>
        /\ doc.text = inv[p].yields[1]

\* Where in a text token a is followed by token b; 0 when nowhere.
Positions(text, a, b) ==
    { k \in 1..(Len(text) - 1) : text[k] = a /\ text[k + 1] = b }

FirstPosition(text, mark) ==
    LET ks == Positions(text, mark[1], mark[2])
    IN  IF ks = {} THEN 0 ELSE CHOOSE k \in ks : \A j \in ks : k <= j

\* The first two tokens of the block of a selected item, and of the block of
\* entry e of directory dirPath walked with basePath.
ItemMark(itemPath) ==
    IF isIgnoredItem(Basename(itemPath))
    THEN <<PathStr(itemPath), " (content ignored)\n">>
    ELSE IF getFileType(itemPath) = "directory"
    THEN <<"This is a merged representation of: ", PathStr(itemPath)>>
    ELSE <<"File: ", NameStr(Basename(itemPath))>>

EntryMark(dirPath, basePath, e) ==
    IF /\ ~isIgnoredItem(e)
       /\ ~isBinaryOrMediaFile(e)
       /\ DirentIsDirectory(Append(dirPath, e))
    THEN <<"This is a merged representation of: ", PathStr(Append(dirPath, e))>>
    ELSE <<"File: ", RelStr(Append(basePath, e))>>

IsPrefix(s, d) == Len(s) <= Len(d) /\ SubSeq(d, 1, Len(s)) = s

\* Two marks that are both in the text are there in this order.
InOrderIn(text, m1, m2) ==
    (FirstPosition(text, m1) # 0 /\ FirstPosition(text, m2) # 0)
        => FirstPosition(text, m1) < FirstPosition(text, m2)

\* C7: the blocks of the resolved text are in the selection's order at top level
\* and in enumeration order inside each directory, for every completion order.
C7_BlocksInEnumerationOrder ==
    walk.phase = "done"
        => LET sel == walk.host.items
           IN  /\ \A i, j \in 1..Len(sel) :
                    i < j => InOrderIn(walk.text, ItemMark(sel[i]), ItemMark(sel[j]))
               /\ \A i \in 1..Len(sel) : \A d \in Dirs :
                    IsPrefix(sel[i], d)
                        => LET base == SubSeq(d, Len(sel[i]), Len(d))
                               es == FS[d].entries
                           IN  \A j, k \in 1..Len(es) :
                                 j < k => InOrderIn(walk.text,
                                                    EntryMark(d, base, es[j]),
                                                    EntryMark(d, base, es[k]))

\* The walker, started on selected item s, enumerates directory d.
Reaches(s, d) ==
    /\ IsPrefix(s, d)
    /\ \A k \in (Len(s) + 1)..Len(d) : ~isIgnoredItem(d[k]) /\ ~isBinaryOrMediaFile(d[k])

\* The directory whose enumeration fails lies in a selected subtree.
FaultInSelection ==
    /\ walk.fault # NoFault
    /\ \E i \in 1..Len(walk.host.items) :
         /\ ~isIgnoredItem(Basename(walk.host.items[i]))
         /\ getFileType(walk.host.items[i]) = "directory"
         /\ Reaches(walk.host.items[i], walk.fault.dir)

\* C8: when enumerating a directory of the selected subtrees fails, the text has
\* the "read failed" placeholder of that directory and still has the block of
\* every selected file, directory or ignored item: the failure neither empties nor
\* truncates the resolved text.
C8_DirectoryFailureIsLocal ==
    (walk.phase = "done" /\ FaultInSelection)
        => /\ Positions(walk.text, "Directory: ", PathStr(walk.fault.dir)) # {}
           /\ \A i \in 1..Len(walk.host.items) :
                (\/ isIgnoredItem(Basename(walk.host.items[i]))
                 \/ getFileType(walk.host.items[i]) # "other")
                    => FirstPosition(walk.text, ItemMark(walk.host.items[i])) # 0

\* Filter Policy of the specification: the decision for a name.
classify(name) ==
    IF isIgnoredItem(name) THEN "Ignored"
    ELSE IF isBinaryOrMediaFile(name) THEN "BinaryOrMedia"
    ELSE "Content"

\* The plain files of the subtree of selected item s that are classified Content
\* and lie below no entry of the subtree classified Ignored or BinaryOrMedia. (The
\* selected item itself is skipped when Ignored; a selected directory is walked
\* whatever its extension.)
ContentFiles(s) ==
    { f \in DOMAIN FS :
        /\ FS[f].kind = "file"
        /\ IsPrefix(s, f)
        /\ ~isIgnoredItem(Basename(s))
        /\ classify(Basename(f)) = "Content"
        /\ \A k \in (Len(s) + 1)..Len(f) : classify(f[k]) = "Content" }

RECURSIVE ContentFileCount(_)
ContentFileCount(sel) ==
    IF sel = <<>> THEN 0
    ELSE Cardinality(ContentFiles(Head(sel))) + ContentFileCount(Tail(sel))

C10_TotalFilesCountsContentFiles ==
    (walk.phase = "done" /\ Len(walk.text) >= 2 /\ walk.text[1] = "Total Files: ")
        => walk.text[2] = ToString(ContentFileCount(walk.host.items))

\* ------------------------------------------------------- failures of steps
\* Invocation p has run to its end after step `step` threw.
FailedAt(p, step) == inv[p].pc = "done" /\ inv[p].failed = step

\* showHUD was called once in invocation p, with `message`.
OnlyHud(p, message) == Len(inv[p].huds) = 1 /\ inv[p].huds[1].message = message

\* The document after the file operation of invocation p, as the specification
\* gives it: the text alone, or the previous content, the separator and the text.
Persisted(p) ==
    IF inv[p].operation = "write" THEN Document(inv[p].text)
    ELSE Document(inv[p].prevDoc.text \o Separator \o inv[p].text)

\* C11: when `open -a` fails after the file operation succeeded, the document
\* still holds the whole resolved text, and the one message shown is the
\* launch-failure message, which is not the persistence-failure message.
C11_LaunchFailureKeepsContent ==
    /\ MsgOpenFailed # MsgWriteFailed
    /\ \A p \in Procs :
         FailedAt(p, "exec")
            => /\ inv[p].wrote
               /\ doc = Persisted(p)
               /\ OnlyHud(p, "Unable to open application or perform operation")

C11_Witness ==
    /\ FailedAt(1, "exec")
    /\ inv[1].operation = "append"
    /\ inv[1].prevDoc.exists
    /\ inv[1].launches = 1
    /\ inv[1].huds # <<>> /\ inv[1].huds[1].shown

\* C12: when fs.writeFile / fs.appendFile fails the invocation ends: the one
\* message shown is the persistence-failure message, `open -a` is not called, the
\* stored open time is as it was, and the file operation was called once.
C12_WriteFailureEndsInvocation ==
    \A p \in Procs :
        FailedAt(p, "fileop")
            => /\ OnlyHud(p, "Unable to write to file")
               /\ inv[p].launches = 0
               /\ inv[p].scrolls = 0
               /\ ~inv[p].stored
               /\ store = inv[p].startStore
               /\ inv[p].fileOps = 1
               /\ ~inv[p].wrote

C12_Witness ==
    /\ FailedAt(1, "fileop")
    /\ inv[1].startStore # <<>>
    /\ inv[1].operation = "write"
    /\ inv[1].huds # <<>> /\ inv[1].huds[1].shown

\* C13: the promise of handleChatOperation never rejects, whichever steps fail,
\* the notification included; and an invocation that is not waiting for the host's
\* answer to getSelectedText always has a step to take until it is done.
C13_NeverRejects ==
    \A p \in Procs :
        /\ inv[p].pc # "rejected"
        /\ inv[p].pc \in {"ensure", "resolve", "fileop", "getItem", "exec", "setItem",
                          "osascript", "showHUD", "errorHUD"}
              => ENABLED Step(p)

C13_Witness ==
    /\ inv[1].pc = "done"
    /\ inv[1].failed \in {"mkdir", "fileop", "exec", "setItem", "showHUD"}
    /\ inv[1].huds # <<>>
    /\ ~inv[1].huds[Len(inv[1].huds)].shown
    /\ inv[1].huds[Len(inv[1].huds)].message # MsgAppendSuccessful

\* C20: the messages of a directory-creation failure, a write/append failure and
\* an editor-launch failure are pairwise distinct, and an invocation in which one
\* of these steps fails calls the HUD once, with the message of that step.
C20_ThreeDistinctMessages ==
    /\ MsgOperationFailed # MsgWriteFailed
    /\ MsgWriteFailed # MsgOpenFailed
    /\ MsgOperationFailed # MsgOpenFailed
    /\ \A p \in Procs :
         /\ FailedAt(p, "mkdir") => OnlyHud(p, MsgOperationFailed)
         /\ FailedAt(p, "fileop") => OnlyHud(p, MsgWriteFailed)
         /\ FailedAt(p, "exec") => OnlyHud(p, MsgOpenFailed)

C20_Witness ==
    /\ FailedAt(1, "mkdir")
    /\ inv[1].queried = <<>>
    /\ inv[1].huds = <<Hud(MsgOperationFailed, TRUE)>>

\* ------------------------------------------------------------ the sources
\* Invocation p has been through the three-source resolution.
Resolved(p) == inv[p].queried # <<>> /\ inv[p].pc # "selectedText"

\* Invocation p queried `source`.
Queried(p, source) == \E i \in 1..Len(inv[p].queried) : inv[p].queried[i] = source

\* An answer of the host that is a failure or the empty text.
FailedOrEmpty(answer) == ~answer.ok \/ answer.v = <<>>

\* C14: a source that fails or gives nothing yields the empty text and the next
\* source is queried; the "no content" message is shown only when all three
\* sources were queried and gave nothing; when some source gave text the
\* invocation goes on to the file operation whatever failed before it.
C14_SourceFailureFallsThrough ==
    \A p \in Procs :
        Resolved(p)
            => /\ ~inv[p].selected.ok
                    => inv[p].yields[1] = <<>> /\ Queried(p, "selectedText")
               /\ (Queried(p, "selectedText") /\ FailedOrEmpty(inv[p].stAnswer))
                    => inv[p].yields[2] = <<>> /\ Queried(p, "clipboard")
               /\ (Queried(p, "clipboard") /\ FailedOrEmpty(inv[p].cbAnswer))
                    => inv[p].yields[3] = <<>> /\ inv[p].text = <<>>
               /\ inv[p].message = MsgNoContent
                    => inv[p].queried = <<"selection", "selectedText", "clipboard">>
                       /\ \A i \in 1..3 : inv[p].yields[i] = <<>>
               /\ (inv[p].text # <<>> /\ inv[p].pc = "done")
                    => /\ inv[p].fileOps = 1
                       /\ \A i \in 1..Len(inv[p].huds) :
                            inv[p].huds[i].message # MsgNoContent

C14_Witness ==
    /\ inv[1].pc = "done"
    /\ ~inv[1].selected.ok
    /\ inv[1].stAnswer = [ok |-> FALSE, v |-> <<>>]
    /\ inv[1].cbAnswer.ok /\ inv[1].cbAnswer.v # <<>>
    /\ inv[1].text = inv[1].cbAnswer.v
    /\ inv[1].wrote
    /\ inv[1].failed = ""

\* C16: the document changes only in the one file operation of an invocation
\* whose resolution has finished, and it changes to hold the whole resolved text.
C16_ResolveBeforeMutation ==
    [][doc' # doc
         => /\ inv[1].pc = "fileop"
            /\ Resolved(1)
            /\ inv[1].text # <<>>
            /\ inv[1].text \in { o.text : o \in SelectionOutcomes }
                                  \cup {<<"selected text">>, <<"clipboard text">>}
            /\ inv[1].fileOps = 0 /\ inv'[1].fileOps = 1
            /\ doc' = (IF inv[1].operation = "write" THEN Document(inv[1].text)
                       ELSE Document(doc.text \o Separator \o inv[1].text))]_vars

C16_Witness ==
    /\ inv[1].pc = "done"
    /\ inv[1].wrote
    /\ inv[1].selected = HostItems(<<P_nested>>)
    /\ inv[1].operation = "write"
    /\ Positions(inv[1].text, "File: ", "nested/c.txt") # {}
    /\ doc = Document(inv[1].text)

\* C18: an invocation waiting for the host's answer to getSelectedText always has
\* a step to take: when the host never answers, a timeout ends the wait and the
\* clipboard is read.
C18_SelectedTextQueryTimesOut ==
    \A p \in Procs : inv[p].pc = "selectedText" => ENABLED Step(p)

\* ------------------------------------------------------ blocks of the walk
\* The walk is over and no enumeration failed before the walk pass (a failure in
\* the counting or the structure pass is the case of C8).
WalkedClean == walk.phase = "done" /\ (walk.fault = NoFault \/ walk.fault.from = 3)

\* The selected items that are walked: position i, directory d enumerated from it.
Walked(i, d) ==
    LET s == walk.host.items[i]
    IN  /\ ~isIgnoredItem(Basename(s))
        /\ getFileType(s) = "directory"
        /\ Reaches(s, d)
        /\ \A k \in Len(s)..Len(d) : ~ReaddirFails(SubSeq(d, 1, k), "walk", walk.fault)

\* The relative path the walker from selected item s gives directory d.
BaseOf(s, d) == SubSeq(d, Len(s), Len(d))

\* Every entry of every enumerated directory has its block in the text.
EveryEntryHasBlock ==
    \A i \in 1..Len(walk.host.items) : \A d \in Dirs :
        Walked(i, d)
            => \A k \in 1..Len(FS[d].entries) :
                 FirstPosition(walk.text,
                               EntryMark(d, BaseOf(walk.host.items[i], d),
                                         FS[d].entries[k])) # 0

\* C15: every selected item has exactly one block in the resolved text, whatever
\* its kind.
C15_OneBlockPerSelectedItem ==
    (WalkedClean /\ walk.host.items # <<>>)
        => \A i \in 1..Len(walk.host.items) :
             LET mark == ItemMark(walk.host.items[i])
             IN  Cardinality(Positions(walk.text, mark[1], mark[2])) = 1

\* A file of the tree the walker reads, whose read fails.
UnreadFile(f) ==
    /\ f \in DOMAIN FS
    /\ FS[f].kind # "directory"
    /\ classify(Basename(f)) = "Content"
    /\ ~ReadFileOk(f)

\* C17: a file whose read fails has the "read failed" placeholder with its
\* relative path, in a walked directory and as a selected file, and every entry of
\* every enumerated directory still has its block.
C17_ReadFailureIsLocal ==
    WalkedClean
        => /\ \A i \in 1..Len(walk.host.items) : \A d \in Dirs :
                Walked(i, d)
                    => \A k \in 1..Len(FS[d].entries) :
                         UnreadFile(Append(d, FS[d].entries[k]))
                            => Positions(walk.text,
                                         RelStr(Append(BaseOf(walk.host.items[i], d),
                                                       FS[d].entries[k])),
                                         " (read failed)\n") # {}
           /\ \A i \in 1..Len(walk.host.items) :
                (getFileType(walk.host.items[i]) = "file" /\ UnreadFile(walk.host.items[i]))
                    => Positions(walk.text, NameStr(Basename(walk.host.items[i])),
                                 " (read failed)\n") # {}
           /\ EveryEntryHasBlock

C17_Witness ==
    /\ WalkedClean
    /\ walk.host.items = <<P_proj, P_d>>
    /\ Positions(walk.text, "proj/d.txt", " (read failed)\n") # {}
    /\ Positions(walk.text, "d.txt", " (read failed)\n") # {}
    /\ Positions(walk.text, "File: ", "proj/lnk") # {}
    /\ Positions(walk.text, "linked", "\n") # {}

\* C19: the text returned has the block of every entry of every enumerated
\* directory and of every selected file, directory and ignored item, whatever
\* the order in which the reads and the sub-walks complete.
C19_AllReadsJoined ==
    WalkedClean
        => /\ EveryEntryHasBlock
           /\ \A i \in 1..Len(walk.host.items) :
                (\/ isIgnoredItem(Basename(walk.host.items[i]))
                 \/ getFileType(walk.host.items[i]) # "other")
                    => FirstPosition(walk.text, ItemMark(walk.host.items[i])) # 0

C19_Witness ==
    /\ WalkedClean
    /\ walk.host.items = <<P_demo, P_note>>
    /\ walk.top = <<2, 1>>
    /\ walk.sched[P_demo] = <<N_nested, N_a>>
    /\ Positions(walk.text, "File: ", "demo/a.txt") # {}
    /\ Positions(walk.text, "File: ", "demo/nested/c.txt") # {}
    /\ Positions(walk.text, "File: ", "note.md") # {}

C22_WriteIsIdempotent ==
    \A p \in Procs :
        (Finished(p, "write") /\ inv[p].prevDoc = Document(inv[p].text))
            => doc = inv[p].prevDoc

C22_Witness ==
    /\ Finished(1, "write")
    /\ started = 2
    /\ inv[1].text # <<>>
    /\ inv[1].prevDoc = Document(inv[1].text)
    /\ doc = Document(inv[1].text)

\* Invocation p has run to its end with no step failing and the text persisted.
Succeeded(p) == inv[p].pc = "done" /\ inv[p].wrote /\ inv[p].failed = ""

C26_ScrollOnlyForMidAppend ==
    \A p \in Procs :
        inv[p].scrolls > 0
            => /\ inv[p].operation = "append"
               /\ inv[p].currentTime - inv[p].lastOpenTime > OneMinute
               /\ inv[p].currentTime - inv[p].lastOpenTime <= TenMinutes
               /\ inv[p].launched
               /\ inv[p].editorApp = "Cursor"

C26_Witness ==
    /\ inv[1].pc = "done"
    /\ inv[1].scrolls = 1
    /\ inv[1].failed = ""
    /\ inv[1].currentTime - inv[1].lastOpenTime = TenMinutes

\* C27: an append that reads the clock at most one minute after the clock
\* reading of the last invocation whose `open -a` succeeded does not call
\* `open -a`.
C27_RecentLaunchIsNotRepeated ==
    \A p \in Procs :
        (/\ inv[p].operation = "append"
         /\ inv[p].prevLaunch # 0
         /\ inv[p].wrote
         /\ inv[p].currentTime - inv[p].prevLaunch <= OneMinute)
            => inv[p].launches = 0

\* C28: the stored open time changes only in the setItem that follows a
\* successful `open -a`, to the clock reading of that invocation; an invocation
\* that only notifies, whose launch or file operation fails, or that finds no
\* content, ends with the stored time it started with.
C28_StoreChangesOnlyAfterLaunch ==
    [][/\ store' # store
          => /\ inv[1].pc = "setItem"
             /\ inv[1].launched
             /\ store' = toString(inv[1].currentTime)
       /\ (/\ inv'[1].pc = "done"
           /\ \/ ~inv'[1].launched
              \/ inv'[1].failed \in {"fileop", "exec", "mkdir"}
              \/ inv'[1].message = MsgNoContent)
          => store' = inv'[1].startStore]_vars

C28_Witness ==
    /\ FailedAt(1, "exec")
    /\ inv[1].startStore # <<>>
    /\ store = inv[1].startStore
    /\ inv[1].currentTime - inv[1].lastOpenTime > OneMinute

\* C29: when the host reports a non-empty selection, the text is what the
\* selection source gave, it is not empty, and no other source is queried.
C29_SelectionAlwaysWins ==
    \A p \in Procs :
        (Resolved(p) /\ inv[p].selected.ok /\ inv[p].selected.items # <<>>)
            => /\ inv[p].queried = <<"selection">>
               /\ inv[p].text # <<>>
               /\ inv[p].text = inv[p].yields[1]

\* --------------------------------------------------- structure and count
\* The walk is over, no enumeration failed, and something was selected.
WalkedAll == walk.phase = "done" /\ walk.fault = NoFault /\ walk.host.items # <<>>

\* The tokens of the text between the header of the overall structure and the
\* header of the detailed contents.
StructureSection(text) ==
    LET from == { k \in 1..Len(text) : text[k] = "Overall Directory Structure\n===\n" }
        to == { k \in 1..Len(text) : text[k] = "\n===\nDetailed Contents\n===\n" }
    IN  IF from = {} \/ to = {} THEN <<>>
        ELSE SubSeq(text, (CHOOSE k \in from : TRUE) + 1, (CHOOSE k \in to : TRUE) - 1)

\* The number of indentation tokens that end just before position k of a line.
RECURSIVE IndentBefore(_, _)
IndentBefore(sec, k) ==
    IF k > 1 /\ sec[k - 1] = "  " THEN 1 + IndentBefore(sec, k - 1) ELSE 0

\* The entries the structure has to list below selected item s: those with no
\* ignored name on the way down from s.
StructureEntries(s) ==
    { f \in DOMAIN FS :
        /\ IsPrefix(s, f)
        /\ Len(f) > Len(s)
        /\ \A k \in (Len(s) + 1)..Len(f) : ~isIgnoredItem(f[k]) }

\* C23: in the overall structure every entry with no ignored name on its path is
\* listed once, a directory with "/" after it, at the start of a line and after
\* as many indentation levels as its depth below the selected item.
C23_StructureIndentedByDepth ==
    WalkedAll
        => LET sec == StructureSection(walk.text)
           IN  \A i \in 1..Len(walk.host.items) :
                 LET s == walk.host.items[i]
                 IN  (~isIgnoredItem(Basename(s)) /\ getFileType(s) = "directory")
                        => \A f \in StructureEntries(s) :
                             LET rel == RelStr(SubSeq(f, Len(s), Len(f)))
                                 at == { k \in 1..Len(sec) : sec[k] = rel }
                             IN  /\ Cardinality(at) = 1
                                 /\ \A k \in at :
                                      /\ IndentBefore(sec, k) = Len(f) - Len(s)
                                      /\ k - IndentBefore(sec, k) > 1
                                      /\ sec[k - IndentBefore(sec, k) - 1] = "\n"
                                      /\ DirentIsDirectory(f)
                                            => k < Len(sec) /\ sec[k + 1] = "/"

\* The blocks of the text that hold a file's content or its "read failed"
\* placeholder.
ReadBlocks(text) ==
    { k \in 1..(Len(text) - 2) :
        text[k] = "File: " /\ text[k + 2] \in {"\n", " (read failed)\n"} }

\* C30: the number after "Total Files: " is the number of blocks with a file's
\* content or a "read failed" placeholder.
C30_TotalFilesCountsReadBlocks ==
    (WalkedAll /\ walk.text # <<>>)
        => /\ walk.text[1] = "Total Files: "
           /\ walk.text[2] = ToString(Cardinality(ReadBlocks(walk.text)))

\* ------------------------------------------------ classification on its own
MaxNameLen == 3

\* C31: an append with non-empty text that finds no stored open time is handled
\* as if the editor was last opened more than ten minutes ago: `open -a` is
\* called, nothing is scrolled, no 'Append successful' is shown, and when the
\* launch and the store succeed the stored time is the clock reading.
C31_FirstAppendOpensEditor ==
    \A p \in Procs :
        ( /\ inv[p].operation = "append"
          /\ inv[p].wrote
          /\ inv[p].prevStore = <<>>
          /\ inv[p].pc \in {"exec", "setItem", "osascript", "showHUD", "errorHUD", "done"}
          /\ inv[p].failed # "getItem" )
        => /\ inv[p].text # <<>>
           /\ inv[p].lastOpenTime = 0
           /\ inv[p].effective = "write"
           /\ inv[p].pc \notin {"showHUD", "osascript"}
           /\ inv[p].scrolls = 0
           /\ \A i \in 1..Len(inv[p].huds) : inv[p].huds[i].message # MsgAppendSuccessful
           /\ inv[p].pc # "exec" => inv[p].launches = 1
           /\ (inv[p].pc = "done" /\ inv[p].failed = "")
                 => /\ inv[p].launched
                    /\ inv[p].stored
                    /\ store = toString(inv[p].currentTime)

C31_Witness ==
    /\ Finished(1, "append")
    /\ inv[1].prevStore = <<>>
    /\ inv[1].failed = ""
    /\ inv[1].launches = 1
    /\ inv[1].currentTime = Epoch0
    /\ store = toString(Epoch0)

C33_StoredTimeNeverDecreases ==
    [][ (store # <<>> /\ store' # store) => parseInt(store') >= parseInt(store) ]_vars

\* C34: after two overlapping appends, each made within ten minutes of the last
\* open, the document is the earlier content followed by separator + A and
\* separator + B, each whole, in one of the two orders.
C34_OverlappingAppendsBothKept ==
    ( \A p \in Procs : Finished(p, "append") /\ inv[p].effective = "append" )
    => LET A == Separator \o inv[1].text
           B == Separator \o inv[2].text
           prev == IF Len(inv[1].prevDoc.text) <= Len(inv[2].prevDoc.text)
                   THEN inv[1].prevDoc.text ELSE inv[2].prevDoc.text
       IN  doc.text \in { prev \o A \o B, prev \o B \o A }

\* ------------------------------------------------ recursion of the passes
\* No pass treats a symbolic link as a directory: the text has no walk header
\* for it and no structure line marking it as a directory, and the counter
\* gives it 0 without looking below it.
LinksNotFollowed ==
    \A l \in Links :
        /\ Positions(walk.text, "This is a merged representation of: ", PathStr(l)) = {}
        /\ \A i \in 1..Len(walk.host.items) :
             IsPrefix(walk.host.items[i], l)
                 => Positions(walk.text, RelStr(BaseOf(walk.host.items[i], l)), "/") = {}
        /\ countFiles(l, walk.fault) = Returned(0)

\* Selected item i is a directory from which the passes reach directory d.
DescendsFrom(i, d) ==
    LET s == walk.host.items[i]
    IN  /\ ~isIgnoredItem(Basename(s))
        /\ getFileType(s) = "directory"
        /\ IsPrefix(s, d)
        /\ \A k \in (Len(s) + 1)..Len(d) : ~isIgnoredItem(d[k])

\* The lines of the overall structure that list entry e of directory d, as
\* enumerated from selected item i.
StructureLines(i, d, e) ==
    Positions(StructureSection(walk.text), "  ",
              RelStr(BaseOf(walk.host.items[i], Append(d, e))))

\* The selected items from which the structure pass has enumerated directory d.
EnumeratedFrom(d) ==
    { i \in 1..Len(walk.host.items) :
        /\ DescendsFrom(i, d)
        /\ \E k \in 1..Len(FS[d].entries) : StructureLines(i, d, FS[d].entries[k]) # {} }

C36_LinkFilesOpensOneLinkedFile ==
    /\ (link.pc \in {"showHUD", "catch", "returned", "createSymlinks", "getFileType",
                     "exec", "success"}
        /\ (~link.host.ok \/ link.host.items = <<>>))
          => /\ link.selectedItems = <<>>
             /\ link.symlinks = "none"
             /\ link.created = 0
             /\ link.launches = 0
             /\ link.pc \in {"showHUD", "catch", "returned"}
             /\ link.pc = "returned" => link.toast = "Failure"
    /\ (link.pc = "exec" \/ link.launches > 0)
          => /\ link.launches <= 1
             /\ Len(link.selectedItems) = 1
             /\ link.host.ok
             /\ link.host.items # <<>>
             /\ FS[link.selectedItems[1]].kind = "file"
             /\ link.symlinks = "completed"

C36_Witness ==
    /\ link.pc = "returned"
    /\ link.selectedItems = <<P_note>>
    /\ link.symlinks = "completed"
    /\ link.created = 1
    /\ link.launches = 1
    /\ link.toast = "Success"

\* The words names are made of, and the names of at most MaxNameLen words.
NameWords == {".", "git", "png", "PNG", "txt", "a", "node_modules", "env"}
ClassNames == UNION { [1..n -> NameWords] : n \in 0..MaxNameLen }

\* Directories an entry can lie in.
ClassDirs == { <<N_u>>, P_demo, P_xc, P_git }

\* The names readdir and the Finder can give: not empty, not "." and not "..".
IsEntryName(name) == name \notin { <<>>, <<".">>, <<".", ".">> }

\* The decision where the code tests the name (readDirectoryContents), and where
\* it tests the full path (countFiles, getContentFromSelectedItems).
classifyPath(dir, name) ==
    IF isIgnoredItem(name) THEN "Ignored"
    ELSE IF isBinaryOrMediaPath(Append(dir, name)) THEN "BinaryOrMedia"
    ELSE "Content"

InitClassify ==
    /\ now = Epoch0
    /\ store = <<>>
    /\ dirExists = FALSE
    /\ doc = NoDocument
    /\ inv = [p \in Procs |-> Idle]
    /\ started = 0
    /\ ticks = 0
    /\ walk = NoWalk
    /\ link = NoLink
    /\ \E name \in ClassNames, dir \in ClassDirs :
         cls = [NoCls EXCEPT !.phase = "input", !.name = name, !.dir = dir]

Classify ==
    /\ cls.phase = "input"
    /\ cls' = [cls EXCEPT !.phase = "done",
                          !.byName = classify(cls.name),
                          !.byPath = IF IsEntryName(cls.name)
                                     THEN classifyPath(cls.dir, cls.name)
                                     ELSE classify(cls.name)]
    /\ UNCHANGED <<now, store, dirExists, doc, inv, started, ticks, walk, link>>

NextClassify == Classify

SpecClassify == InitClassify /\ [][NextClassify]_vars

====
